---- MODULE Spec2Model ----
(***************************************************************************)
(* Model of the content layer of the ConceptsBlog application:             *)
(*   lib/posts   getPostBySlug, getPosts, getPostMetadata                  *)
(*   app/page    Home                                                      *)
(*   app/blog/[slug]/page   Post                                           *)
(*                                                                         *)
(* Conventions.                                                            *)
(*  - A JavaScript string on which the code does character work (file      *)
(*    names, slugs, dates) is a sequence of one-character strings.         *)
(*  - A file's text is a sequence of lines; a line is a record (Delim,     *)
(*    KV, Bad, Text below).                                                 *)
(*  - A JavaScript number is a record [nan, v]; Date.getTime() is counted  *)
(*    in days (1 day = 86 400 000 ms) to stay inside TLC's integers: all   *)
(*    dates of the model are date-only, so every timestamp is a whole      *)
(*    number of days and order, sign and zero are preserved.               *)
(*  - The front-matter library (gray-matter) is modelled as a function of  *)
(*    the text it is given.                                                *)
(***************************************************************************)
EXTENDS Integers, Sequences, FiniteSets, TLC

VARIABLES
  fs,      \* the file system: path -> node
  resp,    \* the request being answered and what it ended in
  query,   \* PostsWithSearch: the state `query`
  shown,   \* PostsWithSearch: the list handed to Posts at the last render
  reqs,    \* requests in flight at the same time: request -> its promise
  doc      \* the document: the mounted Posts components, the custom-cursor
           \* elements of document.body and the mousemove listeners

vars == <<fs, resp, query, shown, reqs, doc>>

\* the state of the browser page and of the requests in flight, which the
\* calls of lib/posts and the author's edits leave alone
others == <<query, shown, reqs, doc>>

-----------------------------------------------------------------------------
(* Strings                                                                 *)

\* String.prototype.includes: sub occurs in s, the empty string in every s
includes(s, sub) ==
  \E i \in 1..(Len(s) + 1) :
    i + Len(sub) - 1 <= Len(s) /\ SubSeq(s, i, i + Len(sub) - 1) = sub

\* variant: includes instead of endsWith
endsWithAnywhere(s, suf) == includes(s, suf)

endsWith(s, suf) ==
  /\ Len(s) >= Len(suf)
  /\ SubSeq(s, Len(s) - Len(suf) + 1, Len(s)) = suf

DotMd == <<".", "m", "d">>

Upper ==
  <<"A", "B", "C", "D", "E", "F", "G", "H", "I", "J", "K", "L", "M",
    "N", "O", "P", "Q", "R", "S", "T", "U", "V", "W", "X", "Y", "Z">>

Lower ==
  <<"a", "b", "c", "d", "e", "f", "g", "h", "i", "j", "k", "l", "m",
    "n", "o", "p", "q", "r", "s", "t", "u", "v", "w", "x", "y", "z">>

\* String.prototype.toLowerCase on the letters A-Z
toLowerCase(s) ==
  [i \in 1..Len(s) |->
     IF \E k \in 1..Len(Upper) : Upper[k] = s[i]
     THEN Lower[CHOOSE k \in 1..Len(Upper) : Upper[k] = s[i]]
     ELSE s[i]]

\* variant: the slug normalised, filePath.replace(/\.md$/, "").toLowerCase().trim()
stripMdNormalised(s) ==
  LET t == toLowerCase(IF Len(s) >= 3 /\ SubSeq(s, Len(s) - 2, Len(s)) = <<".", "m", "d">>
                       THEN SubSeq(s, 1, Len(s) - 3) ELSE s)
  IN SelectSeq(t, LAMBDA c : c # " ")

\* filePath.replace(/\.md$/, "")
stripMd(s) ==
  IF endsWith(s, DotMd) THEN SubSeq(s, 1, Len(s) - Len(DotMd)) ELSE s

\* the segments of s between "/" characters
RECURSIVE split(_)
split(s) ==
  IF \A i \in 1..Len(s) : s[i] # "/"
  THEN <<s>>
  ELSE LET i == CHOOSE j \in 1..Len(s) :
                  /\ s[j] = "/"
                  /\ \A k \in 1..(j - 1) : s[k] # "/"
       IN <<SubSeq(s, 1, i - 1)>> \o split(SubSeq(s, i + 1, Len(s)))

\* path normalisation: "" and "." segments dropped, ".." removes the segment
\* before it (a ".." at the top stays)
RECURSIVE normalize(_, _)
normalize(done, todo) ==
  IF todo = <<>> THEN done
  ELSE LET seg == Head(todo) IN
       IF seg = <<>> \/ seg = <<".">> THEN normalize(done, Tail(todo))
       ELSE IF seg = <<".", ".">>
            THEN IF done # <<>> /\ done[Len(done)] # <<".", ".">>
                 THEN normalize(SubSeq(done, 1, Len(done) - 1), Tail(todo))
                 ELSE normalize(Append(done, seg), Tail(todo))
            ELSE normalize(Append(done, seg), Tail(todo))

\* path.join(dir, name): a path is the sequence of its segments
pathJoin(dir, name) == normalize(<<>>, dir \o split(name))

-----------------------------------------------------------------------------
(* Numbers and dates                                                       *)

NaN == [nan |-> TRUE, v |-> 0]
Num(n) == [nan |-> FALSE, v |-> n]

\* a - b on JavaScript numbers
minus(a, b) == IF a.nan \/ b.nan THEN NaN ELSE Num(a.v - b.v)

\* variant: x || Date.now(), an undated item counted as published today
orNow(x) == IF x.nan \/ x.v = 0 THEN Num(20454) ELSE x      \* 2026-01-01

\* x || 0 on a JavaScript number: NaN and 0 are falsy
orZero(x) == IF x.nan \/ x.v = 0 THEN Num(0) ELSE x

Digits == {"0", "1", "2", "3", "4", "5", "6", "7", "8", "9"}

digit(c) ==
  CASE c = "0" -> 0 [] c = "1" -> 1 [] c = "2" -> 2 [] c = "3" -> 3
    [] c = "4" -> 4 [] c = "5" -> 5 [] c = "6" -> 6 [] c = "7" -> 7
    [] c = "8" -> 8 [] c = "9" -> 9

isLeap(y) == (y % 4 = 0 /\ y % 100 # 0) \/ y % 400 = 0

daysInMonth(y, m) ==
  IF m = 2 THEN (IF isLeap(y) THEN 29 ELSE 28)
  ELSE IF m \in {4, 6, 9, 11} THEN 30 ELSE 31

RECURSIVE daysBeforeMonth(_, _)
daysBeforeMonth(y, m) ==
  IF m = 1 THEN 0 ELSE daysBeforeMonth(y, m - 1) + daysInMonth(y, m - 1)

leapsBefore(y) == ((y - 1) \div 4) - ((y - 1) \div 100) + ((y - 1) \div 400)

\* days from 1970-01-01 to y-m-d (negative before the epoch)
daysFromCivil(y, m, d) ==
  365 * (y - 1970) + (leapsBefore(y) - leapsBefore(1970))
    + daysBeforeMonth(y, m) + (d - 1)

\* s has the date-only form YYYY-MM-DD
isDateForm(s) ==
  /\ Len(s) = 10
  /\ s[5] = "-" /\ s[8] = "-"
  /\ \A i \in {1, 2, 3, 4, 6, 7, 9, 10} : s[i] \in Digits

yearOf(s) == 1000 * digit(s[1]) + 100 * digit(s[2]) + 10 * digit(s[3]) + digit(s[4])
monthOf(s) == 10 * digit(s[6]) + digit(s[7])
dayOf(s) == 10 * digit(s[9]) + digit(s[10])

\* new Date(string).getTime(): a date-only string is UTC midnight of that
\* day, anything else of the model's strings is an Invalid Date (NaN)
parseDate(s) ==
  IF /\ isDateForm(s)
     /\ monthOf(s) \in 1..12
     /\ dayOf(s) \in 1..daysInMonth(yearOf(s), monthOf(s))
  THEN Num(daysFromCivil(yearOf(s), monthOf(s), dayOf(s)))
  ELSE NaN

-----------------------------------------------------------------------------
(* JavaScript values of a header mapping                                   *)

VStr(s) == [t |-> "str", s |-> s, d |-> 0]
VDate(d) == [t |-> "date", s |-> <<>>, d |-> d]
VNull == [t |-> "null", s |-> <<>>, d |-> 0]

\* new Date(x).getTime() for a string or a Date
getTime(x) ==
  IF x.t = "date" THEN Num(x.d)
  ELSE IF x.t = "str" THEN parseDate(x.s)
  ELSE Num(0)

-----------------------------------------------------------------------------
(* File text and the front-matter parser                                   *)

Delim == [t |-> "delim", k |-> "", v |-> <<>>, q |-> FALSE]      \* ---
KV(k, v, q) == [t |-> "kv", k |-> k, v |-> v, q |-> q]              \* k: v  or  k: "v"
Bad == [t |-> "bad", k |-> "", v |-> <<>>, q |-> FALSE]          \* k: "v",
Text(s) == [t |-> "text", k |-> s, v |-> <<>>, q |-> FALSE]       \* a line of body text

\* the YAML value of the scalar of a key-value line: a quoted scalar is a
\* string, an unquoted date is a timestamp, an empty scalar is null
yamlValue(l) ==
  IF l.q THEN VStr(l.v)
  ELSE IF l.v = <<>> THEN VNull
  ELSE IF ~(parseDate(l.v).nan) THEN VDate(parseDate(l.v).v)
  ELSE VStr(l.v)

\* a header block parses when every line is a key-value pair and no key
\* comes twice
wellFormed(block) ==
  /\ \A i \in 1..Len(block) : block[i].t = "kv"
  /\ \A i, j \in 1..Len(block) : block[i].k = block[j].k => i = j

yamlLoad(block) ==
  [key \in {block[i].k : i \in 1..Len(block)} |->
     yamlValue(block[CHOOSE i \in 1..Len(block) : block[i].k = key])]

NoData == [key \in {} |-> VNull]

\* index in ls of the first delimiter line, Len(ls) + 1 when there is none
closeIndex(ls) ==
  IF \E i \in 1..Len(ls) : ls[i].t = "delim"
  THEN CHOOSE i \in 1..Len(ls) :
         /\ ls[i].t = "delim"
         /\ \A j \in 1..(i - 1) : ls[j].t # "delim"
  ELSE Len(ls) + 1

\* variant: a text without a header block is rejected
matterRequiresHeader(input) ==
  IF input = <<>> \/ Head(input).t # "delim"
  THEN [throws |-> TRUE, data |-> NoData, content |-> <<>>]
  ELSE LET rest == Tail(input)
           c == closeIndex(rest)
           block == SubSeq(rest, 1, c - 1)
       IN IF wellFormed(block)
          THEN [throws |-> FALSE, data |-> yamlLoad(block),
                content |-> SubSeq(rest, c + 1, Len(rest))]
          ELSE [throws |-> TRUE, data |-> NoData, content |-> <<>>]

\* matter(input): {data, content}, or an exception for a malformed header
matter(input) ==
  IF input = <<>> \/ Head(input).t # "delim"
  THEN [throws |-> FALSE, data |-> NoData, content |-> input]
  ELSE LET rest == Tail(input)
           c == closeIndex(rest)
           block == SubSeq(rest, 1, c - 1)
       IN IF wellFormed(block)
          THEN [throws |-> FALSE, data |-> yamlLoad(block),
                content |-> SubSeq(rest, c + 1, Len(rest))]
          ELSE [throws |-> TRUE, data |-> NoData, content |-> <<>>]

-----------------------------------------------------------------------------
(* The file system                                                         *)

NoNode == [kind |-> "none", text |-> <<>>]
DirNode == [kind |-> "dir", text |-> <<>>]
NoPermNode == [kind |-> "noperm", text |-> <<>>]     \* a file that cannot be read
FileNode(text) == [kind |-> "file", text |-> text]

\* fs.readFileSync(path, "utf-8")
readFileSync(f, path) ==
  IF path \in DOMAIN f /\ f[path].kind = "file"
  THEN [throws |-> FALSE, text |-> f[path].text]
  ELSE [throws |-> TRUE, text |-> <<>>]

\* the names of the entries of directory dir
entries(f, dir) ==
  {p[Len(p)] : p \in {q \in DOMAIN f : /\ Len(q) = Len(dir) + 1
                                       /\ SubSeq(q, 1, Len(dir)) = dir
                                       /\ f[q].kind # "none"}}

\* the orders in which the operating system may enumerate a set of names
enumerations(S) ==
  {o \in [1..Cardinality(S) -> S] : \A i, j \in 1..Cardinality(S) : o[i] = o[j] => i = j}

\* fs.readdirSync(dir), the operating system enumerating in order `order`
readdirSync(f, dir, order) ==
  IF dir \in DOMAIN f /\ f[dir].kind = "dir"
  THEN [throws |-> FALSE, files |-> order]
  ELSE [throws |-> TRUE, files |-> <<>>]

-----------------------------------------------------------------------------
(* lib/posts                                                               *)

\* variant: { slug, ...data }, a slug of the header wins and, in the
\* model, no slug is added
dataOnly(data, slug) == data

\* variant: { slug, ...data }, a slug of the header wins over the given one
slugFirst(data, slug) ==
  [key \in DOMAIN data \cup {"slug"} |->
     IF key \in DOMAIN data THEN data[key] ELSE VStr(slug)]

\* { ...data, slug }
withSlug(data, slug) ==
  [key \in DOMAIN data \cup {"slug"} |-> IF key = "slug" THEN VStr(slug) ELSE data[key]]

NullPost == [null |-> TRUE, metadata |-> NoData, content |-> <<>>]

\* the body of the try block of getPostBySlug
tryGetPostBySlug(f, rootDir, slug) ==
  LET filePath == pathJoin(rootDir, slug \o DotMd)
      fileContents == readFileSync(f, filePath)
      m == matter(fileContents.text)
  IN IF fileContents.throws \/ m.throws
     THEN [throws |-> TRUE, val |-> NullPost]
     ELSE [throws |-> FALSE,
           val |-> [null |-> FALSE, metadata |-> withSlug(m.data, slug),
                    content |-> m.content]]

\* variant: no catch around the body
getPostBySlugNoCatch(f, rootDir, slug) == tryGetPostBySlug(f, rootDir, slug)

\* variant: only a failed read gives null, a failed parse is thrown on
getPostBySlugCatchRead(f, rootDir, slug) ==
  LET r == tryGetPostBySlug(f, rootDir, slug)
  IN IF r.throws /\ readFileSync(f, pathJoin(rootDir, slug \o DotMd)).throws
     THEN [throws |-> FALSE, val |-> NullPost]
     ELSE r

\* try { ... } catch { return null; }
getPostBySlug(f, rootDir, slug) ==
  LET r == tryGetPostBySlug(f, rootDir, slug)
  IN IF r.throws THEN [throws |-> FALSE, val |-> NullPost] ELSE r

\* variant: a file that cannot be read or parsed is listed with its slug alone
getPostMetadataGuarded(f, rootDir, filePath) ==
  LET slug == stripMd(filePath)
      fileContents == readFileSync(f, pathJoin(rootDir, filePath))
      m == matter(fileContents.text)
  IN IF fileContents.throws \/ m.throws
     THEN [throws |-> FALSE, val |-> withSlug(NoData, slug)]
     ELSE [throws |-> FALSE, val |-> withSlug(m.data, slug)]

\* variant: the file name as it is, suffix and all, is the slug
getPostMetadataKeepExt(f, rootDir, filePath) ==
  LET fileContents == readFileSync(f, pathJoin(rootDir, filePath))
      m == matter(fileContents.text)
  IN IF fileContents.throws \/ m.throws
     THEN [throws |-> TRUE, val |-> NoData]
     ELSE [throws |-> FALSE, val |-> withSlug(m.data, filePath)]

getPostMetadata(f, rootDir, filePath) ==
  LET slug == stripMd(filePath)
      fileContents == readFileSync(f, pathJoin(rootDir, filePath))
      m == matter(fileContents.text)
  IN IF fileContents.throws \/ m.throws
     THEN [throws |-> TRUE, val |-> NoData]
     ELSE [throws |-> FALSE, val |-> withSlug(m.data, slug)]

\* p.publishedAt ?? ""
publishedAtOr(p) ==
  IF "publishedAt" \in DOMAIN p /\ p["publishedAt"].t # "null"
  THEN p["publishedAt"]
  ELSE VStr(<<>>)

\* variant: the key without its default, new Date(...).getTime()
sortKeyNoDefault(p) == getTime(publishedAtOr(p))

\* new Date(p.publishedAt ?? "").getTime() || 0
sortKey(p) == orZero(getTime(publishedAtOr(p)))

\* variant: the comparator with its operands exchanged (oldest first)
compareFnAscending(a, b) == minus(sortKey(a), sortKey(b))

\* the comparator given to sort
compareFn(a, b) == minus(sortKey(b), sortKey(a))

\* variant: two items are also exchanged when the comparator gives 0
exchangeOnTie(c) == c.nan \/ c.v >= 0

\* the sort puts the later item first when the comparator gives a positive
\* number; a comparator result that is NaN counts as 0
exchange(c) == ~c.nan /\ c.v > 0

\* Array.prototype.sort: stable
RECURSIVE insert(_, _)
insert(s, x) ==
  IF s = <<>> THEN <<x>>
  ELSE LET last == s[Len(s)]
           c == compareFn(last, x)
       IN IF exchange(c)
          THEN Append(insert(SubSeq(s, 1, Len(s) - 1), x), last)
          ELSE Append(s, x)

RECURSIVE sort(_)
sort(s) ==
  IF s = <<>> THEN <<>> ELSE insert(sort(SubSeq(s, 1, Len(s) - 1)), s[Len(s)])

\* a limit is <<>> (undefined) or <<n>>
Undefined == <<>>

\* variant: limit !== undefined, a limit of 0 taken as a limit
defined(limit) == limit # Undefined

\* if (limit)
truthy(limit) == limit # Undefined /\ limit[1] # 0

\* variant: posts.slice(0, n + 1), one item too many
sliceOneMore(s, n) == SubSeq(s, 1, IF n + 1 < Len(s) THEN n + 1 ELSE Len(s))

\* posts.slice(0, n)
slice(s, n) ==
  IF n >= 0
  THEN SubSeq(s, 1, IF n < Len(s) THEN n ELSE Len(s))
  ELSE SubSeq(s, 1, IF Len(s) + n > 0 THEN Len(s) + n ELSE 0)

getPosts(f, rootDir, limit, order) ==
  LET dir == readdirSync(f, rootDir, order)
      files == SelectSeq(dir.files, LAMBDA file : endsWith(file, DotMd))
      mapped == [i \in 1..Len(files) |-> getPostMetadata(f, rootDir, files[i])]
      posts == sort([i \in 1..Len(files) |-> mapped[i].val])
  IN IF dir.throws \/ \E i \in 1..Len(files) : mapped[i].throws
     THEN [throws |-> TRUE, val |-> <<>>]
     ELSE IF truthy(limit)
          THEN [throws |-> FALSE, val |-> slice(posts, limit[1])]
          ELSE [throws |-> FALSE, val |-> posts]

-----------------------------------------------------------------------------
(* app/page and app/blog/[slug]/page                                       *)

cwd == <<>>

\* path.join(process.cwd(), "data")
blogDirectory == pathJoin(cwd, <<"d", "a", "t", "a">>)

\* Home: the posts of getPosts(blogDirectory) handed to the list view; an
\* exception of getPosts is not caught and leaves the page function
renderHome(posts) ==
  IF posts.throws
  THEN [throws |-> TRUE, val |-> [view |-> "none", posts |-> <<>>]]
  ELSE [throws |-> FALSE, val |-> [view |-> "Home", posts |-> posts.val]]

Home(f, order) == renderHome(getPosts(f, blogDirectory, Undefined, order))

\* Post: the not-found view when the lookup gives null, else the article
\* variant: no if (!post), the article is rendered from whatever came back
renderPostNoCheck(post) ==
  IF post.throws
  THEN [throws |-> TRUE, val |-> [view |-> "none", post |-> NullPost]]
  ELSE [throws |-> FALSE, val |-> [view |-> "Article", post |-> post.val]]

renderPost(post) ==
  IF post.throws
  THEN [throws |-> TRUE, val |-> [view |-> "none", post |-> NullPost]]
  ELSE IF post.val.null
       THEN [throws |-> FALSE, val |-> [view |-> "NotFound", post |-> NullPost]]
       ELSE [throws |-> FALSE, val |-> [view |-> "Article", post |-> post.val]]

Post(f, slug) == renderPost(getPostBySlug(f, blogDirectory, slug))

-----------------------------------------------------------------------------
(* components/PostsWithSearch                                              *)

\* post.title?.toLowerCase().includes(query.toLowerCase()): undefined for a
\* missing or null title, an exception (toLowerCase is not a function) for a
\* title that is neither a string nor null
titleMatches(post, q) ==
  IF "title" \notin DOMAIN post \/ post["title"].t = "null"
  THEN [throws |-> FALSE, val |-> FALSE]
  ELSE IF post["title"].t # "str"
       THEN [throws |-> TRUE, val |-> FALSE]
       ELSE [throws |-> FALSE,
             val |-> includes(toLowerCase(post["title"].s), toLowerCase(q))]

\* the render of PostsWithSearch: the list handed to Posts and the disabled
\* attribute of the Clear button, disabled={!query.length}
PostsWithSearch(posts, q) ==
  IF \E i \in 1..Len(posts) : titleMatches(posts[i], q).throws
  THEN [rendered |-> TRUE, throws |-> TRUE, list |-> <<>>, disabled |-> TRUE]
  ELSE [rendered |-> TRUE, throws |-> FALSE,
        list |-> SelectSeq(posts, LAMBDA post : titleMatches(post, q).val),
        disabled |-> Len(q) = 0]

\* the render r, with the event that led to it
After(event, r) ==
  [rendered |-> r.rendered, throws |-> r.throws, list |-> r.list,
   disabled |-> r.disabled, event |-> event]

-----------------------------------------------------------------------------
(* components/Posts                                                        *)

\* "/blog/"
Blog == <<"/", "b", "l", "o", "g", "/">>

\* one <li>: its post, the href of its Link, whether a Separator precedes;
\* i is the index of posts.map, from 0
listItem(list, i) ==
  [post |-> list[i + 1],
   href |-> Blog \o list[i + 1]["slug"].s,
   separator |-> i # 0 /\ i # Len(list)]

\* variant: if (limit !== undefined), a limit of 0 taken as a limit
PostsLimitDefined(posts, limit) ==
  LET list == IF defined(limit) THEN slice(posts, limit[1]) ELSE posts
  IN [card |-> Len(list) > 0,
      items |-> IF Len(list) > 0
                THEN [i \in 1..Len(list) |-> listItem(list, i - 1)] ELSE <<>>]

\* the render of Posts: posts.length > 0 && <Card> with one <li> per post
Posts(posts, limit) ==
  LET list == IF truthy(limit) THEN slice(posts, limit[1]) ELSE posts
  IN [card |-> Len(list) > 0,
      items |-> IF Len(list) > 0
                THEN [i \in 1..Len(list) |-> listItem(list, i - 1)] ELSE <<>>]

-----------------------------------------------------------------------------
(* The stores and requests explored                                        *)

D20250101 == <<"2", "0", "2", "5", "-", "0", "1", "-", "0", "1">>
D20250301 == <<"2", "0", "2", "5", "-", "0", "3", "-", "0", "1">>
D20250211 == <<"2", "0", "2", "5", "-", "0", "2", "-", "1", "1">>
D20250518 == <<"2", "0", "2", "5", "-", "0", "5", "-", "1", "8">>
D19691231 == <<"1", "9", "6", "9", "-", "1", "2", "-", "3", "1">>
D19700101 == <<"1", "9", "7", "0", "-", "0", "1", "-", "0", "1">>
Soon == <<"s", "o", "o", "n">>

\* a complete header, quoted values
TextJan ==
  <<Delim, KV("title", <<"X">>, TRUE), KV("summary", <<"Y">>, TRUE),
    KV("publishedAt", D20250101, TRUE), Delim, Text("body of jan")>>

\* a body that itself contains a --- line
TextMar ==
  <<Delim, KV("title", <<"M", "o", "n", "g", "o">>, TRUE),
    KV("image", <<>>, TRUE), KV("publishedAt", D20250301, TRUE), Delim,
    Text("# Aggregation"), Delim, Text("body of mar")>>

\* a header without publishedAt
TextNoDate == <<Delim, KV("title", <<"C">>, TRUE), Delim, Text("body without date")>>

\* no header block at all: the first line is no --- line, a later one is
TextNoHeader == <<Text("just text"), Delim, Text("more text")>>

\* a header line that is not YAML (a quoted scalar followed by a comma)
TextMalformed ==
  <<Delim, KV("title", <<"G", "i", "t">>, TRUE), Bad,
    KV("publishedAt", D20250211, TRUE), Delim, Text("body of git")>>

\* unquoted scalars: a timestamp and an empty value
TextUnquoted ==
  <<Delim, KV("title", <<"S", "p", "r", "i", "n", "g">>, FALSE),
    KV("image", <<>>, FALSE), KV("publishedAt", D20250518, FALSE), Delim,
    Text("# IoC and DI")>>

\* a date before the epoch, the epoch itself, a date that does not parse,
\* an empty date
TextOld == <<Delim, KV("publishedAt", D19691231, TRUE), Delim, Text("old")>>
TextEpoch == <<Delim, KV("publishedAt", D19700101, TRUE), Delim, Text("epoch")>>
TextSoon == <<Delim, KV("title", <<"T">>, TRUE), KV("publishedAt", Soon, TRUE), Delim>>
TextEmptyDate == <<Delim, KV("publishedAt", <<>>, TRUE), Delim, Text("empty date")>>

\* the texts tried under every content-file name
CoreTexts == {TextJan, TextMar, TextNoDate, TextMalformed, TextOld, TextEpoch}

\* all texts
Texts == CoreTexts \cup {TextNoHeader, TextUnquoted, TextSoon, TextEmptyDate}

NameA == <<"a", ".", "m", "d">>
NameB == <<"b", ".", "m", "d">>
NameC == <<"c", ".", "m", "d">>
NameMdx == <<"n", ".", "m", "d", "x">>
NameOutside == <<"s", ".", "m", "d">>

\* the names a file of the store may have
Names == {NameA, NameB, NameC, NameMdx}

\* what the author may put under a name of the store: under a.md any text,
\* a directory or an unreadable file, under b.md a core text, under c.md a
\* text without date, of January or of the epoch, under n.mdx one text
Writable(name) ==
  IF name = NameA THEN {FileNode(t) : t \in Texts} \cup {DirNode, NoPermNode}
  ELSE IF name = NameB THEN {FileNode(t) : t \in CoreTexts}
  ELSE IF name = NameC THEN {FileNode(TextNoDate), FileNode(TextJan), FileNode(TextEpoch)}
  ELSE {FileNode(TextJan)}

\* a file next to the store, not in it
OutsidePath == pathJoin(cwd, NameOutside)

Paths == {blogDirectory, OutsidePath} \cup {pathJoin(blogDirectory, n) : n \in Names}

\* the slugs requested: of files of the store, of no file, of the file
\* next to the store
Slugs == {<<"a">>, <<"b">>, <<"c">>, <<"z">>, <<".", ".", "/", "s">>}

MaxLimit == 2

Limits == {Undefined} \cup {<<n>> : n \in 0..MaxLimit}

Idle ==
  [op |-> "idle", slug |-> <<>>, limit |-> Undefined, order |-> <<>>,
   out |-> [throws |-> FALSE, val |-> <<>>]]

TypeOK ==
  /\ DOMAIN fs = Paths
  /\ resp.op \in {"idle", "getPostBySlug", "getPosts", "Home", "Post"}

\* the store of the scenario: a.md of January, b.md of March, c.md without a
\* date, next to n.mdx, which is no content file
InitStore ==
  [p \in Paths |->
     IF p = blogDirectory THEN DirNode
     ELSE IF p = pathJoin(blogDirectory, NameA) THEN FileNode(TextJan)
     ELSE IF p = pathJoin(blogDirectory, NameB) THEN FileNode(TextMar)
     ELSE IF p = pathJoin(blogDirectory, NameC) THEN FileNode(TextNoDate)
     ELSE IF p = OutsidePath THEN FileNode(TextJan)
     ELSE FileNode(TextJan)]

\* PostsWithSearch is not on the screen
NotRendered ==
  [rendered |-> FALSE, throws |-> FALSE, list |-> <<>>, disabled |-> TRUE, event |-> "none"]

\* no Posts component mounted, nothing added to the document
NoDoc == [insts |-> <<>>, cursors |-> <<>>, listeners |-> {}]

\* no page in the browser, no requests in flight
NoOthers ==
  /\ query = <<>>
  /\ shown = NotRendered
  /\ reqs = <<>>
  /\ doc = NoDoc

Init ==
  /\ fs = InitStore
  /\ resp = Idle
  /\ NoOthers

(* Requests.  A request reads the store synchronously and runs to its       *)
(* result; the result is held in resp until the response is complete.       *)

\* variant: the answer is kept from the store the process started with
CallGetPostBySlugCached(slug) ==
  /\ resp.op = "idle"
  /\ resp' = [op |-> "getPostBySlug", slug |-> slug, limit |-> Undefined,
              order |-> <<>>, out |-> getPostBySlug(InitStore, blogDirectory, slug)]
  /\ UNCHANGED <<fs, others>>

CallGetPostBySlug(slug) ==
  /\ resp.op = "idle"
  /\ resp' = [op |-> "getPostBySlug", slug |-> slug, limit |-> Undefined,
              order |-> <<>>, out |-> getPostBySlug(fs, blogDirectory, slug)]
  /\ UNCHANGED <<fs, others>>

\* variant: a missing content directory is created before it is read
CallGetPostsMkdir(limit) ==
  /\ resp.op = "idle"
  /\ \E order \in enumerations(entries(fs, blogDirectory)) :
       resp' = [op |-> "getPosts", slug |-> <<>>, limit |-> limit,
                order |-> order, out |-> getPosts(fs, blogDirectory, limit, order)]
  /\ fs' = IF fs[blogDirectory].kind = "none"
           THEN [fs EXCEPT ![blogDirectory] = DirNode] ELSE fs
  /\ UNCHANGED others

CallGetPosts(limit) ==
  /\ resp.op = "idle"
  /\ \E order \in enumerations(entries(fs, blogDirectory)) :
       resp' = [op |-> "getPosts", slug |-> <<>>, limit |-> limit,
                order |-> order, out |-> getPosts(fs, blogDirectory, limit, order)]
  /\ UNCHANGED <<fs, others>>

RequestHome ==
  /\ resp.op = "idle"
  /\ \E order \in enumerations(entries(fs, blogDirectory)) :
       resp' = [op |-> "Home", slug |-> <<>>, limit |-> Undefined,
                order |-> order, out |-> Home(fs, order)]
  /\ UNCHANGED <<fs, others>>

RequestPost(slug) ==
  /\ resp.op = "idle"
  /\ resp' = [op |-> "Post", slug |-> slug, limit |-> Undefined,
              order |-> <<>>, out |-> Post(fs, slug)]
  /\ UNCHANGED <<fs, others>>

\* the response is complete and its result discarded
Complete ==
  /\ resp.op # "idle"
  /\ resp' = Idle
  /\ UNCHANGED <<fs, others>>

(* The author's changes to the store, between requests.                     *)

WriteFile(name, node) ==
  /\ resp.op = "idle"
  /\ fs[blogDirectory].kind = "dir"
  /\ fs[pathJoin(blogDirectory, name)] # node
  /\ fs' = [fs EXCEPT ![pathJoin(blogDirectory, name)] = node]
  /\ UNCHANGED <<resp, others>>

Unlink(name) ==
  /\ resp.op = "idle"
  /\ fs[pathJoin(blogDirectory, name)].kind # "none"
  /\ fs' = [fs EXCEPT ![pathJoin(blogDirectory, name)] = NoNode]
  /\ UNCHANGED <<resp, others>>

\* the store directory removed with all it holds, and made again
Rmdir ==
  /\ resp.op = "idle"
  /\ fs[blogDirectory].kind = "dir"
  /\ fs' = [p \in Paths |-> IF p = OutsidePath THEN fs[p] ELSE NoNode]
  /\ UNCHANGED <<resp, others>>

Mkdir ==
  /\ resp.op = "idle"
  /\ fs[blogDirectory].kind = "none"
  /\ fs' = [fs EXCEPT ![blogDirectory] = DirNode]
  /\ UNCHANGED <<resp, others>>

Next ==
  \/ \E slug \in Slugs : CallGetPostBySlug(slug)
  \/ \E limit \in Limits : CallGetPosts(limit)
  \/ RequestHome
  \/ \E slug \in Slugs : RequestPost(slug)
  \/ Complete
  \/ \E name \in Names : \E node \in Writable(name) : WriteFile(name, node)
  \/ \E name \in Names : Unlink(name)
  \/ Rmdir
  \/ Mkdir

Spec == Init /\ [][Next]_vars

-----------------------------------------------------------------------------
(* Vocabulary of the properties                                            *)

\* a call of getPosts has returned a list
Listed == resp.op = "getPosts" /\ ~resp.out.throws

\* a call of getPostBySlug is complete
Looked == resp.op = "getPostBySlug"

\* the item has a publishedAt that parses to a timestamp
Parseable(p) ==
  /\ "publishedAt" \in DOMAIN p
  /\ \/ p["publishedAt"].t = "date"
     \/ p["publishedAt"].t = "str" /\ ~parseDate(p["publishedAt"].s).nan

\* the timestamp of a parseable item
Stamp(p) ==
  IF p["publishedAt"].t = "date" THEN p["publishedAt"].d
  ELSE parseDate(p["publishedAt"].s).v

\* the name is that of a content file
IsContentName(n) ==
  Len(n) >= 3 /\ n[Len(n) - 2] = "." /\ n[Len(n) - 1] = "m" /\ n[Len(n)] = "d"

ContentNames == {n \in entries(fs, blogDirectory) : IsContentName(n)}

SlugOfName(n) == SubSeq(n, 1, Len(n) - 3)

SlugsOf(list) == [i \in 1..Len(list) |-> list[i]["slug"].s]

\* the list the same enumeration gives without a limit
FullList == getPosts(fs, blogDirectory, Undefined, resp.order)

Min(a, b) == IF a < b THEN a ELSE b

ScenarioStore ==
  /\ fs[pathJoin(blogDirectory, NameA)] = FileNode(TextJan)
  /\ fs[pathJoin(blogDirectory, NameB)] = FileNode(TextMar)
  /\ fs[pathJoin(blogDirectory, NameC)] = FileNode(TextNoDate)

\* the node the requested slug names
Requested == pathJoin(blogDirectory, resp.slug \o DotMd)

NodeAt(path) == IF path \in DOMAIN fs THEN fs[path] ELSE NoNode

-----------------------------------------------------------------------------
(* Properties                                                              *)

\* C1: every list getPosts returns is sorted non-increasing by the timestamp
\* of publishedAt (0 when there is none): of two items with parseable dates
\* the later one comes first, and the store a.md 2025-01-01, b.md 2025-03-01,
\* c.md without date is listed as [b, a, c].
C1_SortedNewestFirst ==
  Listed =>
    LET list == resp.out.val
        key(p) == IF Parseable(p) THEN Stamp(p) ELSE 0
    IN /\ \A i, j \in 1..Len(list) :
            (Parseable(list[i]) /\ Parseable(list[j]) /\ Stamp(list[i]) > Stamp(list[j]))
              => i < j
       /\ \A i, j \in 1..Len(list) : i < j => key(list[i]) >= key(list[j])
       /\ (ScenarioStore /\ ~truthy(resp.limit))
            => SlugsOf(list) = <<<<"b">>, <<"a">>, <<"c">>>>

C1_Witness ==
  /\ Listed /\ ScenarioStore /\ resp.limit = Undefined
  /\ SlugsOf(resp.out.val) = <<<<"b">>, <<"a">>, <<"c">>>>

\* C2: in getPosts an item whose publishedAt is missing, empty or unparseable
\* has sort key exactly 0, and the comparator gives a number that is not NaN
\* for every pair of listed items.
C2_KeyZeroNeverNaN ==
  Listed =>
    LET list == resp.out.val
    IN /\ \A i \in 1..Len(list) : ~Parseable(list[i]) => sortKey(list[i]) = Num(0)
       /\ \A i, j \in 1..Len(list) : ~compareFn(list[i], list[j]).nan

C2_Witness ==
  /\ Listed
  /\ \E i, j, k \in 1..Len(resp.out.val) :
       /\ "publishedAt" \notin DOMAIN resp.out.val[i]
       /\ "publishedAt" \in DOMAIN resp.out.val[j] /\ ~Parseable(resp.out.val[j])
       /\ Parseable(resp.out.val[k])

\* C3 as stated: in every list getPosts returns no item with a parseable
\* publishedAt comes after an item whose publishedAt is missing or
\* unparseable.
C3_UndatedLast ==
  Listed =>
    \A i, j \in 1..Len(resp.out.val) :
      (~Parseable(resp.out.val[i]) /\ Parseable(resp.out.val[j])) => j < i

\* C3 amended: no item whose publishedAt parses to a time after the epoch
\* comes after an item whose publishedAt is missing or unparseable.
C3_UndatedAfterLaterThanEpoch ==
  Listed =>
    \A i, j \in 1..Len(resp.out.val) :
      (~Parseable(resp.out.val[i]) /\ Parseable(resp.out.val[j])
         /\ Stamp(resp.out.val[j]) > 0) => j < i

C3_Witness ==
  /\ Listed
  /\ \E i, j \in 1..Len(resp.out.val) :
       /\ j < i
       /\ ~Parseable(resp.out.val[i])
       /\ Parseable(resp.out.val[j]) /\ Stamp(resp.out.val[j]) > 0
  /\ resp.order[1] = NameC

\* C4 as stated: for every limit N, getPosts(rootDir, N) returns at most N
\* items and the list is a prefix of getPosts(rootDir) on the same store.
C4_AtMostLimitPrefix ==
  (Listed /\ resp.limit # Undefined) =>
    LET full == FullList
    IN /\ Len(resp.out.val) <= resp.limit[1]
       /\ ~full.throws
       /\ resp.out.val = SubSeq(full.val, 1, Len(resp.out.val))

\* C4 amended: for every limit N >= 1, getPosts(rootDir, N) fails exactly
\* when getPosts(rootDir) fails on the same store and enumeration, and
\* otherwise returns the first min(N, length) items of that list in the
\* same order, so at most N items.
C4_PositiveLimitPrefix ==
  (resp.op = "getPosts" /\ resp.limit # Undefined /\ resp.limit[1] >= 1) =>
    LET full == FullList
    IN /\ resp.out.throws = full.throws
       /\ ~resp.out.throws =>
            /\ Len(resp.out.val) <= resp.limit[1]
            /\ Len(resp.out.val) = Min(resp.limit[1], Len(full.val))
            /\ resp.out.val = SubSeq(full.val, 1, Len(resp.out.val))
       /\ (ScenarioStore /\ ~resp.out.throws /\ resp.limit[1] = 2)
            => SlugsOf(resp.out.val) = <<<<"b">>, <<"a">>>>

C4_Witness ==
  /\ Listed /\ ScenarioStore /\ resp.limit = <<2>>
  /\ SlugsOf(resp.out.val) = <<<<"b">>, <<"a">>>>
  /\ Len(FullList.val) = 3

\* C5: with limit 0 and with limit undefined getPosts returns the full
\* sorted list, one entry for every enumerated content file; a truthy limit
\* gives the first limit items of the sorted list.
C5_FalsyLimitFullList ==
  Listed =>
    LET list == resp.out.val
        key(p) == IF Parseable(p) THEN Stamp(p) ELSE 0
        unlimited == FullList.val
        full == sort(unlimited)
    IN IF resp.limit = Undefined \/ resp.limit = <<0>>
       THEN /\ Len(list) = Cardinality(ContentNames)
            /\ {list[i]["slug"].s : i \in 1..Len(list)}
                 = {SlugOfName(n) : n \in ContentNames}
            /\ \A i, j \in 1..Len(list) : i < j => key(list[i]) >= key(list[j])
            /\ list = unlimited
       ELSE list = SubSeq(full, 1, Min(resp.limit[1], Len(full)))

C5_Witness ==
  /\ Listed /\ resp.limit = <<0>>
  /\ Len(resp.out.val) = 3
  /\ Cardinality(ContentNames) = 3

\* C6: for a slug that names no file <slug>.md under rootDir, getPostBySlug
\* returns null and does not throw.
C6_MissingSlugIsNull ==
  (Looked /\ NodeAt(Requested).kind = "none") =>
    /\ ~resp.out.throws
    /\ resp.out.val.null

C6_Witness ==
  /\ Looked /\ resp.slug = <<"z">>
  /\ NodeAt(Requested).kind = "none"
  /\ resp.out.val.null

HasGoodHeader(text) ==
  /\ Len(text) >= 2 /\ text[1].t = "delim"
  /\ \E c \in 2..Len(text) :
       /\ text[c].t = "delim"
       /\ \A i \in 2..(c - 1) : text[i].t = "kv"
       /\ \A i, j \in 2..(c - 1) : text[i].k = text[j].k => i = j

\* the line that closes the header block
HeaderEnd(text) ==
  CHOOSE c \in 2..Len(text) :
    text[c].t = "delim" /\ \A i \in 2..(c - 1) : text[i].t # "delim"

\* C8: for a readable file <slug>.md with a well-formed header,
\* getPostBySlug returns a post whose metadata has exactly the keys of the
\* header plus slug, each header key with its parsed value and slug the
\* requested slug, and whose content is the text after the header.
C8_MetadataIsHeaderPlusSlug ==
  (Looked /\ NodeAt(Requested).kind = "file" /\ HasGoodHeader(NodeAt(Requested).text)) =>
    LET text == NodeAt(Requested).text
        c == HeaderEnd(text)
        post == resp.out.val
    IN /\ ~resp.out.throws /\ ~post.null
       /\ DOMAIN post.metadata = {text[i].k : i \in 2..(c - 1)} \cup {"slug"}
       /\ post.metadata["slug"] = VStr(resp.slug)
       /\ \A i \in 2..(c - 1) :
            text[i].k # "slug" =>
              post.metadata[text[i].k] =
                (IF text[i].q THEN VStr(text[i].v)
                 ELSE IF text[i].v = <<>> THEN VNull
                 ELSE IF ~parseDate(text[i].v).nan THEN VDate(parseDate(text[i].v).v)
                 ELSE VStr(text[i].v))
       /\ post.content = SubSeq(text, c + 1, Len(text))
       /\ text = TextJan =>
            /\ post.metadata = [title |-> VStr(<<"X">>), summary |-> VStr(<<"Y">>),
                                publishedAt |-> VStr(D20250101), slug |-> VStr(resp.slug)]
            /\ post.content = <<Text("body of jan")>>
       /\ text = TextMar =>
            post.content = <<Text("# Aggregation"), Delim, Text("body of mar")>>

C8_Witness ==
  /\ Looked /\ resp.slug = <<"b">>
  /\ NodeAt(Requested) = FileNode(TextMar)
  /\ ~resp.out.val.null
  /\ DOMAIN resp.out.val.metadata = {"title", "image", "publishedAt", "slug"}

\* C9: no exception of getPostBySlug or getPosts reaches the Home page or
\* the Post page: every page request ends in a view, never in an exception.
C9_NoExceptionCrosses ==
  resp.op \in {"Home", "Post"} => ~resp.out.throws

\* C10: a list getPosts returns without limit has exactly one entry for each
\* directory entry whose name ends with ".md" and none for any other entry,
\* and an entry has the keys of its file's header and slug, no body text.
C10_OneEntryPerContentFile ==
  (Listed /\ resp.limit = Undefined) =>
    LET list == resp.out.val
    IN /\ Len(list) = Cardinality(ContentNames)
       /\ \A n \in ContentNames :
            Cardinality({i \in 1..Len(list) : list[i]["slug"] = VStr(SlugOfName(n))}) = 1
       /\ \A i \in 1..Len(list) :
            \E n \in ContentNames :
              LET text == fs[pathJoin(blogDirectory, n)].text
              IN /\ list[i]["slug"] = VStr(SlugOfName(n))
                 /\ DOMAIN list[i] =
                      {"slug"} \cup
                      (IF HasGoodHeader(text)
                       THEN {text[k].k : k \in 2..(HeaderEnd(text) - 1)} ELSE {})
                 /\ "content" \notin DOMAIN list[i]

C10_Witness ==
  /\ Listed /\ resp.limit = Undefined
  /\ Len(resp.out.val) = 2
  /\ NameMdx \in entries(fs, blogDirectory)
  /\ Cardinality(entries(fs, blogDirectory)) = 3

-----------------------------------------------------------------------------
(* Slug derivation: a store whose file names differ in case, in white      *)
(* space and in a second suffix                                            *)

NameUpperA == <<"A", ".", "m", "d">>
NameSpaceA == <<"a", " ", ".", "m", "d">>
NameTwiceA == <<"a", ".", "m", "d", ".", "m", "d">>

SlugNames == {NameA, NameUpperA, NameSpaceA, NameTwiceA}

\* a header with a slug key of its own
TextOwnSlug ==
  <<Delim, KV("slug", <<"h">>, TRUE), KV("title", <<"H">>, TRUE), Delim, Text("own slug")>>

SlugPaths == {blogDirectory} \cup {pathJoin(blogDirectory, n) : n \in SlugNames}

InitSlug ==
  /\ fs = [p \in SlugPaths |-> IF p = blogDirectory THEN DirNode ELSE FileNode(TextJan)]
  /\ resp = Idle
  /\ NoOthers

NextSlug ==
  \/ \E limit \in Limits : CallGetPosts(limit)
  \/ Complete
  \/ \E name \in SlugNames :
       \E node \in {FileNode(TextJan), FileNode(TextNoDate), FileNode(TextOwnSlug)} :
         WriteFile(name, node)
  \/ \E name \in SlugNames : Unlink(name)
  \/ \E name \in SlugNames : CallGetPostBySlug(stripMd(name))

SpecSlug == InitSlug /\ [][NextSlug]_vars

\* C11: the slug of a listed item is its file name without the trailing
\* ".md", character for character (case, white space and an inner ".md"
\* kept), and the slugs of a list are pairwise distinct.
C11_SlugIsNameWithoutSuffix ==
  (Listed /\ ~truthy(resp.limit)) =>
    LET list == resp.out.val
    IN /\ Len(list) = Cardinality(ContentNames)
       /\ \A n \in ContentNames :
            \E i \in 1..Len(list) :
              /\ list[i]["slug"].t = "str"
              /\ list[i]["slug"].s \o <<".", "m", "d">> = n
       /\ \A i, j \in 1..Len(list) : list[i]["slug"] = list[j]["slug"] => i = j

C11_Witness ==
  /\ Listed /\ resp.limit = Undefined
  /\ {resp.out.val[i]["slug"].s : i \in 1..Len(resp.out.val)}
       = {<<"a">>, <<"A">>, <<"a", " ">>, <<"a", ".", "m", "d">>}

-----------------------------------------------------------------------------
\* the file text does not start with a header block
NoHeader(text) == text = <<>> \/ text[1].t # "delim"

\* C12: a file without a header block parses: getPostBySlug returns a post
\* whose metadata is the slug alone and whose content is the whole file
\* text, and an unlimited list of getPosts has for the file an item with the
\* slug alone, whose sort key is 0.
C12_NoHeaderSlugOnly ==
  /\ (Looked /\ NodeAt(Requested).kind = "file" /\ NoHeader(NodeAt(Requested).text)) =>
       /\ ~resp.out.throws /\ ~resp.out.val.null
       /\ resp.out.val.metadata = [key \in {"slug"} |-> VStr(resp.slug)]
       /\ resp.out.val.content = NodeAt(Requested).text
  /\ (resp.op = "getPosts" /\ resp.limit = Undefined
        /\ fs[blogDirectory].kind = "dir"
        /\ \A n \in ContentNames :
             /\ fs[pathJoin(blogDirectory, n)].kind = "file"
             /\ \/ NoHeader(fs[pathJoin(blogDirectory, n)].text)
                \/ HasGoodHeader(fs[pathJoin(blogDirectory, n)].text)) =>
       /\ ~resp.out.throws
       /\ \A n \in ContentNames :
            NoHeader(fs[pathJoin(blogDirectory, n)].text) =>
              \E i \in 1..Len(resp.out.val) :
                /\ resp.out.val[i] = [key \in {"slug"} |-> VStr(SlugOfName(n))]
                /\ sortKey(resp.out.val[i]) = Num(0)

C12_Witness ==
  /\ Looked /\ resp.slug = <<"a">>
  /\ NodeAt(Requested) = FileNode(TextNoHeader)
  /\ resp.out.val.content = <<Text("just text"), Delim, Text("more text")>>

-----------------------------------------------------------------------------
\* the file can be read and parsed
GoodFile(node) ==
  node.kind = "file" /\ (NoHeader(node.text) \/ HasGoodHeader(node.text))

-----------------------------------------------------------------------------
\* C14: a call of getPostBySlug or getPosts, on its own or from a page, and
\* whether it returns a value, null or an exception, leaves every node of
\* the store as it was.
C14_CallsLeaveStore ==
  [][(resp.op = "idle" /\ resp'.op # "idle") => fs' = fs]_vars

\* a failed call of getPosts on a store without the directory, which is
\* still without it
C14_Witness ==
  /\ resp.op = "getPosts" /\ resp.out.throws
  /\ fs[blogDirectory].kind = "none"
  /\ \A p \in Paths : Len(p) = 2 => fs[p].kind = "none"

-----------------------------------------------------------------------------
(* The Home page in the browser: PostsWithSearch over the posts of Home    *)

\* an unquoted title that YAML reads as a timestamp, an empty unquoted title
TextDateTitle == <<Delim, KV("title", D20250518, FALSE), Delim, Text("dated title")>>
TextNullTitle == <<Delim, KV("title", <<>>, FALSE), Delim, Text("null title")>>

\* a quoted empty title
TextEmptyTitle == <<Delim, KV("title", <<>>, TRUE), Delim, Text("empty title")>>

SearchWritable(name) ==
  IF name = NameA
  THEN {FileNode(TextJan), FileNode(TextUnquoted), FileNode(TextDateTitle), FileNode(TextOld)}
  ELSE {FileNode(TextNoDate), FileNode(TextNullTitle), FileNode(TextEmptyTitle)}

MaxQuery == 2

QueryChars == {"O", "n", "y", "a"}

\* the values the search field can take with one key: a letter more, the
\* last letter less
Keyed(q) ==
  {q \o <<c>> : c \in IF Len(q) < MaxQuery THEN QueryChars ELSE {}}
    \cup (IF Len(q) > 0 THEN {SubSeq(q, 1, Len(q) - 1)} ELSE {})

\* useState(""), and the first render
MountPostsWithSearch ==
  /\ resp.op = "Home" /\ ~resp.out.throws
  /\ ~shown.rendered
  /\ query' = <<>>
  /\ shown' = After("mount", PostsWithSearch(resp.out.val.posts, <<>>))
  /\ UNCHANGED <<fs, resp, reqs, doc>>

\* onChange={(e) => setQuery(e.target.value)}, and the render that follows
OnChange(value) ==
  /\ shown.rendered /\ ~shown.throws
  /\ value # query
  /\ query' = value
  /\ shown' = After("change", PostsWithSearch(resp.out.val.posts, value))
  /\ UNCHANGED <<fs, resp, reqs, doc>>

\* variant: the click empties the search field and nothing is rendered anew
OnClickClearNoRender ==
  /\ shown.rendered /\ ~shown.throws
  /\ ~shown.disabled
  /\ query' = <<>>
  /\ shown' = After("clear", shown)
  /\ UNCHANGED <<fs, resp, reqs, doc>>

\* onClick={() => setQuery("")} of the button, which takes clicks when it
\* is not disabled, and the render that follows
OnClickClear ==
  /\ shown.rendered /\ ~shown.throws
  /\ ~shown.disabled
  /\ query' = <<>>
  /\ shown' = After("clear", PostsWithSearch(resp.out.val.posts, <<>>))
  /\ UNCHANGED <<fs, resp, reqs, doc>>

\* the page is left
LeavePage ==
  /\ resp.op = "Home"
  /\ resp' = Idle
  /\ query' = <<>>
  /\ shown' = NotRendered
  /\ UNCHANGED <<fs, reqs, doc>>

NextSearch ==
  \/ RequestHome
  \/ MountPostsWithSearch
  \/ \E value \in Keyed(query) : OnChange(value)
  \/ OnClickClear
  \/ LeavePage
  \/ \E name \in {NameA, NameC} : \E node \in SearchWritable(name) : WriteFile(name, node)

SpecSearch == Init /\ [][NextSearch]_vars

\* the title of the post is a string that has the query in it, letter case
\* apart
TitleHas(post, q) ==
  /\ "title" \in DOMAIN post /\ post["title"].t = "str"
  /\ LET title == post["title"].s
     IN \E i \in 0..Len(title) :
          /\ i + Len(q) <= Len(title)
          /\ \A k \in 1..Len(q) : toLowerCase(<<title[i + k]>>) = toLowerCase(<<q[k]>>)

\* the posts with the query in the title, in the order of the posts
TitleMatches(posts, q) == SelectSeq(posts, LAMBDA post : TitleHas(post, q))

\* C15: whenever PostsWithSearch is on the screen, the list it shows is the
\* posts of Home whose title has the present query in it, letter case
\* apart, in the order of the posts.
C15_ShownAreTitleMatches ==
  shown.rendered =>
    /\ ~shown.throws
    /\ shown.list = TitleMatches(resp.out.val.posts, query)

\* the same, when every title is a string, null or missing
SearchOnStringTitles ==
  (/\ shown.rendered
   /\ \A i \in 1..Len(resp.out.val.posts) :
        "title" \in DOMAIN resp.out.val.posts[i] =>
          resp.out.val.posts[i]["title"].t \in {"str", "null"}) =>
    /\ ~shown.throws
    /\ shown.list = TitleMatches(resp.out.val.posts, query)

SearchOnStringTitlesWitness ==
  /\ shown.rendered /\ ~shown.throws
  /\ query = <<"O", "n">>
  /\ Len(resp.out.val.posts) = 3
  /\ SlugsOf(shown.list) = <<<<"b">>>>

-----------------------------------------------------------------------------
(* Page requests in flight at the same time.  A page function runs up to   *)
(* an await and is resumed later; getPostBySlug and getPosts have no await  *)
(* inside and run from call to return in one step.                          *)

MaxReqs == 2

NoOut == [throws |-> FALSE, val |-> <<>>]
NoRes == [throws |-> FALSE, val |-> [view |-> "none"]]

ConcSlugs == {<<"a">>, <<"z">>}

InitConc ==
  /\ fs = [p \in Paths |->
             IF p \in {pathJoin(blogDirectory, NameC), pathJoin(blogDirectory, NameMdx)}
             THEN NoNode ELSE InitStore[p]]
  /\ resp = Idle
  /\ NoOthers

\* Post is called and waits at: await params
AcceptPost(slug) ==
  /\ Len(reqs) < MaxReqs
  /\ reqs' = Append(reqs, [op |-> "Post", slug |-> slug, order |-> <<>>,
                           pc |-> "params", out |-> NoOut, res |-> NoRes])
  /\ UNCHANGED <<fs, resp, query, shown, doc>>

\* Post goes on to: await getPostBySlug(blogDirectory, slug)
ResumeParams(i) ==
  /\ reqs[i].pc = "params"
  /\ reqs' = [reqs EXCEPT ![i].pc = "lookup",
                          ![i].out = getPostBySlug(fs, blogDirectory, reqs[i].slug)]
  /\ UNCHANGED <<fs, resp, query, shown, doc>>

\* Home is called and waits at: await getPosts(blogDirectory)
AcceptHome ==
  /\ Len(reqs) < MaxReqs
  /\ \E order \in enumerations(entries(fs, blogDirectory)) :
       reqs' = Append(reqs, [op |-> "Home", slug |-> <<>>, order |-> order,
                             pc |-> "lookup",
                             out |-> getPosts(fs, blogDirectory, Undefined, order),
                             res |-> NoRes])
  /\ UNCHANGED <<fs, resp, query, shown, doc>>

\* the latest request of the same page whose lookup has been made
LatestLike(i) ==
  CHOOSE j \in 1..Len(reqs) :
    /\ reqs[j].op = reqs[i].op /\ reqs[j].pc # "params"
    /\ \A k \in 1..Len(reqs) :
         (reqs[k].op = reqs[i].op /\ reqs[k].pc # "params") => k <= j

\* variant: the result of the lookup is kept in one place for all requests
ResumeLookupShared(i) ==
  /\ reqs[i].pc = "lookup"
  /\ reqs' = [reqs EXCEPT ![i].pc = "done",
                          ![i].out = reqs[LatestLike(i)].out,
                          ![i].res = IF reqs[i].op = "Post"
                                     THEN renderPost(reqs[LatestLike(i)].out)
                                     ELSE renderHome(reqs[LatestLike(i)].out)]
  /\ UNCHANGED <<fs, resp, query, shown, doc>>

\* the page function goes on after the lookup, to its return
ResumeLookup(i) ==
  /\ reqs[i].pc = "lookup"
  /\ reqs' = [reqs EXCEPT ![i].pc = "done",
                          ![i].res = IF reqs[i].op = "Post"
                                     THEN renderPost(reqs[i].out)
                                     ELSE renderHome(reqs[i].out)]
  /\ UNCHANGED <<fs, resp, query, shown, doc>>

\* the responses are sent
Respond ==
  /\ reqs # <<>>
  /\ \A i \in 1..Len(reqs) : reqs[i].pc = "done"
  /\ reqs' = <<>>
  /\ UNCHANGED <<fs, resp, query, shown, doc>>

\* the author changes a.md while no request is in flight
EditBetween ==
  /\ reqs = <<>>
  /\ \/ \E text \in {TextJan, TextMalformed, TextNoHeader} : WriteFile(NameA, FileNode(text))
     \/ Unlink(NameA)

NextConc ==
  \/ \E slug \in ConcSlugs : AcceptPost(slug)
  \/ \E i \in 1..Len(reqs) : ResumeParams(i)
  \/ AcceptHome
  \/ \E i \in 1..Len(reqs) : ResumeLookup(i)
  \/ Respond
  \/ EditBetween

SpecConc == InitConc /\ [][NextConc]_vars

\* C16: a Post request shows nothing before its lookup has returned and the
\* page function has gone on; then it shows the not-found view exactly when
\* the lookup gave null, and otherwise the article with the metadata and
\* content the lookup gave.
C16_NotFoundIffNull ==
  \A i \in 1..Len(reqs) :
    reqs[i].op = "Post" =>
      /\ reqs[i].pc # "done" => reqs[i].res = NoRes
      /\ reqs[i].pc = "done" =>
           /\ reqs[i].out = getPostBySlug(fs, blogDirectory, reqs[i].slug)
           /\ ~reqs[i].res.throws
           /\ reqs[i].res.val.view \in {"NotFound", "Article"}
           /\ reqs[i].res.val.view = "NotFound" <=> reqs[i].out.val.null
           /\ reqs[i].res.val.view = "Article" =>
                /\ reqs[i].res.val.post.metadata = reqs[i].out.val.metadata
                /\ reqs[i].res.val.post.content = reqs[i].out.val.content
                /\ reqs[i].res.val.post.metadata["slug"] = VStr(reqs[i].slug)

C16_Witness ==
  /\ Len(reqs) = 2
  /\ reqs[1].op = "Post" /\ reqs[1].pc = "done" /\ reqs[1].res.val.view = "Article"
  /\ reqs[1].slug = <<"a">>
  /\ reqs[2].op = "Post" /\ reqs[2].pc = "done" /\ reqs[2].res.val.view = "NotFound"
  /\ reqs[2].slug = <<"z">>

-----------------------------------------------------------------------------
PlaceOf(item) ==
  CHOOSE k \in 1..Len(resp.order) : resp.order[k] = item["slug"].s \o <<".", "m", "d">>

\* C18: in a list getPosts returns, two items with the same sort key are in
\* the order in which the directory enumeration gave their files.
C18_TiesKeepEnumerationOrder ==
  Listed =>
    \A i, j \in 1..Len(resp.out.val) :
      (i < j /\ sortKey(resp.out.val[i]) = sortKey(resp.out.val[j])) =>
        PlaceOf(resp.out.val[i]) < PlaceOf(resp.out.val[j])

\* c.md enumerated before a.md, both of January, and listed in that order
C18_Witness ==
  /\ Listed /\ resp.limit = Undefined
  /\ fs[pathJoin(blogDirectory, NameA)] = FileNode(TextJan)
  /\ fs[pathJoin(blogDirectory, NameC)] = FileNode(TextJan)
  /\ \E i, j \in 1..Len(resp.out.val) :
       /\ i < j
       /\ resp.out.val[i]["slug"] = VStr(<<"c">>)
       /\ resp.out.val[j]["slug"] = VStr(<<"a">>)

-----------------------------------------------------------------------------
-----------------------------------------------------------------------------
\* C20: for every item of a list getPosts returns, getPostBySlug on the
\* same store with the item's slug returns a post, not null, and the
\* metadata of the post is the item.
C20_ListedItemsAreFound ==
  Listed =>
    \A i \in 1..Len(resp.out.val) :
      LET m == resp.out.val[i]
          post == getPostBySlug(fs, blogDirectory, m["slug"].s)
      IN /\ ~post.throws /\ ~post.val.null
         /\ post.val.metadata = m

\* a list of three items, one from unquoted header values
C20_Witness ==
  /\ Listed /\ Len(resp.out.val) = 3
  /\ fs[pathJoin(blogDirectory, NameA)] = FileNode(TextUnquoted)
  /\ \E i \in 1..3 :
       /\ resp.out.val[i]["slug"] = VStr(<<"a">>)
       /\ resp.out.val[i]["publishedAt"].t = "date"

-----------------------------------------------------------------------------
\* C21: whenever getPostBySlug returns a post, the requested slug is the
\* slug of a content file of the store: the file read is an entry of the
\* directory, for slugs with separators and ".." segments too.
C21_FoundOnlyInStore ==
  (Looked /\ ~resp.out.val.null) =>
    /\ resp.slug \o <<".", "m", "d">> \in ContentNames
    /\ resp.slug \in {SlugOfName(n) : n \in ContentNames}

\* the same for slugs that are one path segment
FoundInStoreForPlainSlugs ==
  (Looked /\ ~resp.out.val.null /\ Len(split(resp.slug)) = 1) =>
    resp.slug \o <<".", "m", "d">> \in ContentNames

-----------------------------------------------------------------------------
\* C22: the slug of the metadata getPostBySlug returns is the requested
\* slug, and the slug of every entry getPosts returns is the name of its
\* file without ".md", also when the header of the file has a slug key: the
\* value of that key appears nowhere.
C22_InjectedSlugWins ==
  /\ (Looked /\ ~resp.out.val.null) =>
       /\ resp.out.val.metadata["slug"] = VStr(resp.slug)
       /\ NodeAt(Requested).text = TextOwnSlug =>
            resp.out.val.metadata = [slug |-> VStr(resp.slug), title |-> VStr(<<"H">>)]
  /\ Listed =>
       /\ \A i \in 1..Len(resp.out.val) :
            /\ resp.out.val[i]["slug"].t = "str"
            /\ resp.out.val[i]["slug"].s # <<"h">>
            /\ resp.out.val[i]["slug"].s \o <<".", "m", "d">> \in ContentNames
            /\ fs[pathJoin(blogDirectory, resp.out.val[i]["slug"].s \o <<".", "m", "d">>)].text
                 = TextOwnSlug <=>
               ("title" \in DOMAIN resp.out.val[i]
                  /\ resp.out.val[i]["title"] = VStr(<<"H">>))
       /\ \A i, j \in 1..Len(resp.out.val) :
            resp.out.val[i]["slug"] = resp.out.val[j]["slug"] => i = j

\* a file with a slug key in the header, looked up
C22_Witness ==
  /\ Looked /\ resp.slug = <<"A">>
  /\ NodeAt(Requested) = FileNode(TextOwnSlug)
  /\ resp.out.val.metadata["slug"] = VStr(<<"A">>)

-----------------------------------------------------------------------------
\* the post has a title: the key is there and its value is not null
HasTitle(post) == "title" \in DOMAIN post /\ post["title"].t # "null"

\* C23: whenever PostsWithSearch is on the screen, every post it shows has a
\* title, and with the empty query it shows exactly the posts that have a
\* title, in their order.
C23_UntitledNeverShown ==
  shown.rendered =>
    /\ \A i \in 1..Len(shown.list) : HasTitle(shown.list[i])
    /\ query = <<>> =>
         /\ ~shown.throws
         /\ shown.list = SelectSeq(resp.out.val.posts, HasTitle)

\* the same, when every title is a string, null or missing
UntitledNeverShownOnStringTitles ==
  (/\ shown.rendered
   /\ \A i \in 1..Len(resp.out.val.posts) :
        "title" \in DOMAIN resp.out.val.posts[i] =>
          resp.out.val.posts[i]["title"].t \in {"str", "null"}) =>
    /\ ~shown.throws
    /\ \A i \in 1..Len(shown.list) : HasTitle(shown.list[i])
    /\ query = <<>> => shown.list = SelectSeq(resp.out.val.posts, HasTitle)

\* the first view is shorter than the list of getPosts
ShorterThanCatalog ==
  /\ shown.rendered /\ ~shown.throws /\ query = <<>>
  /\ Len(shown.list) = 1 /\ Len(resp.out.val.posts) = 3

-----------------------------------------------------------------------------
\* C24: whenever PostsWithSearch is on the screen, after whatever keys and
\* Clear clicks, the Clear button is disabled exactly when the query is
\* empty; after a Clear click the query is empty and the list shown is that
\* of the first render, the posts that have a title.
C24_ClearEmptiesQuery ==
  (shown.rendered /\ ~shown.throws) =>
    /\ shown.disabled <=> query = <<>>
    /\ shown.event = "clear" =>
         /\ query = <<>>
         /\ shown.list = SelectSeq(resp.out.val.posts, HasTitle)
    /\ shown.event = "mount" =>
         /\ query = <<>>
         /\ shown.list = SelectSeq(resp.out.val.posts, HasTitle)

\* a Clear click on a page that shows posts
C24_Witness ==
  /\ shown.rendered /\ ~shown.throws
  /\ shown.event = "clear" /\ shown.disabled
  /\ Len(shown.list) = 2 /\ Len(resp.out.val.posts) = 3

-----------------------------------------------------------------------------
(* Calls of getPosts one after the other on a store that stays as it is,   *)
(* their arguments and results kept in reqs                                 *)

MaxCalls == 2

InitTwice ==
  /\ fs = [InitStore EXCEPT ![pathJoin(blogDirectory, NameMdx)] = NoNode]
  /\ resp = Idle
  /\ NoOthers

\* variant: the list is made from a second enumeration of the directory
LogGetPostsReread(limit) ==
  /\ Len(reqs) < MaxCalls
  /\ \E order \in enumerations(entries(fs, blogDirectory)) :
       \E other \in enumerations(entries(fs, blogDirectory)) :
         reqs' = Append(reqs, [limit |-> limit, order |-> order,
                               out |-> getPosts(fs, blogDirectory, limit, other)])
  /\ UNCHANGED <<fs, resp, query, shown, doc>>

\* getPosts(blogDirectory, limit), the directory enumerated in some order
LogGetPosts(limit) ==
  /\ Len(reqs) < MaxCalls
  /\ \E order \in enumerations(entries(fs, blogDirectory)) :
       reqs' = Append(reqs, [limit |-> limit, order |-> order,
                             out |-> getPosts(fs, blogDirectory, limit, order)])
  /\ UNCHANGED <<fs, resp, query, shown, doc>>

\* the results are dropped
Forget ==
  /\ reqs # <<>>
  /\ reqs' = <<>>
  /\ UNCHANGED <<fs, resp, query, shown, doc>>

\* the author changes a.md or c.md while no result is kept
EditBeforeCalls ==
  /\ reqs = <<>>
  /\ \/ \E text \in {TextJan, TextMalformed} : WriteFile(NameA, FileNode(text))
     \/ \E text \in {TextJan, TextNoDate} : WriteFile(NameC, FileNode(text))

NextTwice ==
  \/ \E limit \in {Undefined, <<1>>} : LogGetPosts(limit)
  \/ Forget
  \/ EditBeforeCalls

SpecTwice == InitTwice /\ [][NextTwice]_vars

-----------------------------------------------------------------------------
(* Posts components in the document                                        *)

MaxMounted == 3

\* useState<number | null>(null): <<>> is null, <<i>> the number i
Null == <<>>

\* the elements and listeners of the document have identities; a new one
\* gets the least identity not in use
Fresh ==
  CHOOSE n \in 1..(Len(doc.cursors) + 1) :
    /\ \A c \in 1..Len(doc.cursors) : doc.cursors[c].id # n
    /\ \A m \in 1..(Len(doc.cursors) + 1) :
         (\A c \in 1..Len(doc.cursors) : doc.cursors[c].id # m) => n <= m

\* the first render of a Posts component and its effect: a div of class
\* custom-cursor appended to document.body, a mousemove listener added
MountPosts(posts, limit) ==
  /\ Len(doc.insts) < MaxMounted
  /\ doc' = [insts |-> Append(doc.insts,
                              [posts |-> posts, limit |-> limit, hoveredIndex |-> Null,
                               cursor |-> Fresh, updateCursor |-> Fresh,
                               view |-> Posts(posts, limit)]),
             cursors |-> Append(doc.cursors, [id |-> Fresh, transform |-> "unset"]),
             listeners |-> doc.listeners \cup {Fresh}]
  /\ UNCHANGED <<fs, resp, query, shown, reqs>>

\* the sequence without its k-th element
Without(seq, k) == SubSeq(seq, 1, k - 1) \o SubSeq(seq, k + 1, Len(seq))

\* variant: the cleanup removes the element querySelector finds, the first
\* custom-cursor of the document
UnmountPostsFirstCursor(k) ==
  /\ k \in 1..Len(doc.insts)
  /\ doc' = [insts |-> Without(doc.insts, k),
             cursors |-> Tail(doc.cursors),
             listeners |-> doc.listeners \ {doc.insts[k].updateCursor}]
  /\ UNCHANGED <<fs, resp, query, shown, reqs>>

\* the component is unmounted and the cleanup of its effect runs:
\* removeEventListener("mousemove", updateCursor), cursor.remove()
UnmountPosts(k) ==
  /\ k \in 1..Len(doc.insts)
  /\ doc' = [insts |-> Without(doc.insts, k),
             cursors |-> SelectSeq(doc.cursors, LAMBDA c : c.id # doc.insts[k].cursor),
             listeners |-> doc.listeners \ {doc.insts[k].updateCursor}]
  /\ UNCHANGED <<fs, resp, query, shown, reqs>>

\* the parent renders the component with other posts; state and effect stay
SetPosts(k, posts) ==
  /\ k \in 1..Len(doc.insts)
  /\ posts # doc.insts[k].posts
  /\ doc' = [doc EXCEPT !.insts[k].posts = posts,
                        !.insts[k].view = Posts(posts, doc.insts[k].limit)]
  /\ UNCHANGED <<fs, resp, query, shown, reqs>>

\* document.querySelector(".custom-cursor"): the first such element of the
\* document gets the transform, if there is one
withTransform(cursors, scale) ==
  [c \in 1..Len(cursors) |->
     IF c = 1 THEN [id |-> cursors[c].id, transform |-> scale] ELSE cursors[c]]

\* onMouseEnter of the <li> of index i
OnMouseEnter(k, i) ==
  /\ k \in 1..Len(doc.insts)
  /\ i \in 0..(Len(doc.insts[k].view.items) - 1)
  /\ doc' = [doc EXCEPT !.insts[k].hoveredIndex = <<i>>,
                        !.cursors = withTransform(doc.cursors, "scale(1)")]
  /\ UNCHANGED <<fs, resp, query, shown, reqs>>

\* onMouseLeave of the <li> of index i
OnMouseLeave(k, i) ==
  /\ k \in 1..Len(doc.insts)
  /\ i \in 0..(Len(doc.insts[k].view.items) - 1)
  /\ doc' = [doc EXCEPT !.insts[k].hoveredIndex = Null,
                        !.cursors = withTransform(doc.cursors, "scale(0)")]
  /\ UNCHANGED <<fs, resp, query, shown, reqs>>

\* the list getPosts gives for the store of the scenario: b, a, c
Catalog == getPosts(InitStore, blogDirectory, Undefined, <<NameA, NameB, NameC, NameMdx>>).val

\* the posts of the catalog at the places S, in the order of the catalog
Selected(S) ==
  [i \in 1..Cardinality(S) |->
     Catalog[CHOOSE x \in S : Cardinality({y \in S : y < x}) = i - 1]]

\* the lists given to a Posts component: what a filter leaves of the catalog
PostLists == {Selected(S) : S \in SUBSET (1..Len(Catalog))}

\* a page with one Posts component
MountAlone ==
  /\ doc.insts = <<>>
  /\ \E posts \in PostLists : \E limit \in Limits : MountPosts(posts, limit)

NextPosts ==
  \/ MountAlone
  \/ UnmountPosts(1)
  \/ \E posts \in PostLists : SetPosts(1, posts)
  \/ \E i \in 0..(Len(Catalog) - 1) : OnMouseEnter(1, i)
  \/ \E i \in 0..(Len(Catalog) - 1) : OnMouseLeave(1, i)

SpecPosts == Init /\ [][NextPosts]_vars

\* the first n of the list, n at least 0
FirstN(list, n) == [i \in 1..Min(n, Len(list)) |-> list[i]]

\* C26: a Posts component shows the first limit posts of its input, in
\* order, when limit is a number other than 0, and all of them when limit is
\* 0 or absent; it has a card exactly when that list is not empty, and the
\* link of every item is /blog/ followed by the slug of the item's post.
C26_PostsShowsLimited ==
  \A k \in 1..Len(doc.insts) :
    LET inst == doc.insts[k]
        expected == IF inst.limit = Undefined \/ inst.limit = <<0>>
                    THEN inst.posts ELSE FirstN(inst.posts, inst.limit[1])
    IN /\ Len(inst.view.items) = Len(expected)
       /\ inst.view.card <=> expected # <<>>
       /\ \A i \in 1..Len(expected) :
            /\ inst.view.items[i].post = expected[i]
            /\ inst.view.items[i].href =
                 <<"/", "b", "l", "o", "g", "/">> \o expected[i]["slug"].s

\* a limit that cuts the list, and a list that is empty
C26_Witness ==
  /\ Len(doc.insts) = 1
  /\ doc.insts[1].limit = <<2>> /\ Len(doc.insts[1].posts) = 3
  /\ Len(doc.insts[1].view.items) = 2
  /\ doc.insts[1].view.items[2].href = <<"/", "b", "l", "o", "g", "/", "a">>

-----------------------------------------------------------------------------
(* Several Posts components mounted and unmounted in any order             *)

NextCursor ==
  \/ \E posts \in {Catalog, <<>>} : MountPosts(posts, Undefined)
  \/ \E k \in 1..Len(doc.insts) : UnmountPosts(k)
  \/ \E k \in 1..Len(doc.insts) : OnMouseEnter(k, 0)
  \/ \E k \in 1..Len(doc.insts) : OnMouseLeave(k, 0)

SpecCursor == Init /\ [][NextCursor]_vars

\* C27: after whatever mounts and unmounts, the custom-cursor elements of
\* the document are those of the mounted Posts components, one each, and
\* the mousemove listeners are theirs, one each: as many elements and as
\* many listeners as mounted components.
C27_OneCursorPerMounted ==
  /\ Len(doc.cursors) = Len(doc.insts)
  /\ Cardinality(doc.listeners) = Len(doc.insts)
  /\ {doc.cursors[c].id : c \in 1..Len(doc.cursors)}
       = {doc.insts[k].cursor : k \in 1..Len(doc.insts)}
  /\ doc.listeners = {doc.insts[k].updateCursor : k \in 1..Len(doc.insts)}
  /\ \A k, l \in 1..Len(doc.insts) :
       doc.insts[k].cursor = doc.insts[l].cursor => k = l
  /\ \A c, d \in 1..Len(doc.cursors) :
       doc.cursors[c].id = doc.cursors[d].id => c = d

\* two components were mounted and the first was unmounted: the element
\* and listener left are those of the second
C27_Witness ==
  /\ Len(doc.insts) = 1
  /\ doc.insts[1].cursor = 2
  /\ Len(doc.cursors) = 1 /\ doc.cursors[1].id = 2
  /\ doc.listeners = {2}

-----------------------------------------------------------------------------
\* C28: in every state the hoveredIndex of a mounted Posts component is
\* null or an index of the list the component shows, also after the
\* component was rendered with fewer posts while an item was hovered.
C28_HoveredIndexValid ==
  \A k \in 1..Len(doc.insts) :
    \/ doc.insts[k].hoveredIndex = Null
    \/ doc.insts[k].hoveredIndex[1] \in 0..(Len(doc.insts[k].view.items) - 1)

\* hoveredIndex is null after the mount, i after the mouse has entered item
\* i, null after it has left an item, and no other step changes it
HoverFollowsMouse ==
  [][/\ (doc.insts = <<>> /\ doc'.insts # <<>>) => doc'.insts[1].hoveredIndex = Null
     /\ (doc.insts # <<>> /\ doc'.insts # <<>>
           /\ doc'.insts[1].hoveredIndex # doc.insts[1].hoveredIndex) =>
          /\ doc'.insts[1].posts = doc.insts[1].posts
          /\ doc'.cursors[1].transform =
               (IF doc'.insts[1].hoveredIndex = Null THEN "scale(0)" ELSE "scale(1)")
          /\ doc'.insts[1].hoveredIndex # Null =>
               doc'.insts[1].hoveredIndex[1] \in 0..(Len(doc.insts[1].view.items) - 1)]_vars

====
